---- MODULE Spec2Model ----
(***************************************************************************)
(* Session bookkeeping of the Sports Poem chatbot                          *)
(* (Sports_team_Streamlit/sports_chatbot.py): the Streamlit session state, *)
(* the turn processor (process_user_input, invoke_agent,                   *)
(* process_agent_response, store_messages), init_state and Reset Session.  *)
(*                                                                         *)
(* Texts are sequences of one-character strings.  Python floats (the cost  *)
(* figures) are IEEE-754 doubles; every cost the program can form is a     *)
(* multiple of 2^-64, so a double is held as the integer K = value * 2^64  *)
(* in two limbs <<hi, lo>>, K = hi * 2^27 + lo, and each operation rounds  *)
(* to 53 significant bits, ties to even, as the hardware does.  Wall-clock *)
(* times are whole seconds.                                                *)
(***************************************************************************)
EXTENDS Integers, Sequences, FiniteSets, TLC

\* ------------------------------------------------------------------ bounds
MaxCalls == 2      \* external agent calls in one run of the model
MaxSessions == 2   \* session identifiers drawn in one run of the model

\* ------------------------------------------------------------------- texts
IsSpace(c) == c \in {" ", "\n", "\t"}

RECURSIVE SplitFrom(_, _, _, _)
SplitFrom(text, i, word, words) ==
    IF i > Len(text)
    THEN IF word = <<>> THEN words ELSE Append(words, word)
    ELSE IF IsSpace(text[i])
         THEN SplitFrom(text, i + 1, <<>>,
                        IF word = <<>> THEN words ELSE Append(words, word))
         ELSE SplitFrom(text, i + 1, Append(word, text[i]), words)

\* str.split() with no separator: the maximal runs of non-whitespace
split(text) == SplitFrom(text, 1, <<>>, <<>>)

\* a character count in place of the word count
count_tokens_chars(text) == Len(text)

count_tokens(text) == Len(split(text))

Digit(d) == <<"0", "1", "2", "3", "4", "5", "6", "7", "8", "9">>[d + 1]

RECURSIVE FormatInt(_)
\* str(n) / f"{n}" of a non-negative int
FormatInt(n) == IF n < 10 THEN <<Digit(n)>>
                ELSE FormatInt(n \div 10) \o <<Digit(n % 10)>>

TwoDigits(n) == <<Digit((n \div 10) % 10), Digit(n % 10)>>

\* strftime("%H:%M:%S") of a clock reading in seconds
strftime(t) == TwoDigits((t \div 3600) % 24) \o <<":">>
               \o TwoDigits((t \div 60) % 60) \o <<":">> \o TwoDigits(t % 60)

\* ------------------------------------------------------------------ floats
Limb == 2^27

FZero == <<0, 0>>

\* bits of K above the 53 a double keeps (K < 2^58)
RECURSIVE ExcessBits(_, _)
ExcessBits(hi, s) == IF hi < 2^(26 + s) THEN s ELSE ExcessBits(hi, s + 1)

\* round-to-nearest, ties-to-even, of the exact value hi * 2^27 + lo
FRound(hi, lo) ==
    LET s    == ExcessBits(hi, 0)
        unit == 2^s
        q    == lo \div unit
        rem  == lo % unit
        up   == IF s = 0 THEN 0
                ELSE IF 2 * rem > unit \/ (2 * rem = unit /\ q % 2 = 1)
                     THEN 1 ELSE 0
        lo2  == (q + up) * unit
    IN  IF lo2 >= Limb THEN <<hi + 1, lo2 - Limb>> ELSE <<hi, lo2>>

\* float + float
FAdd(a, b) ==
    LET lo == a[2] + b[2]
    IN  FRound(a[1] + b[1] + lo \div Limb, lo % Limb)

\* int * float (the int converts exactly)
FMul(n, x) ==
    LET lo == n * x[2]
    IN  FRound(n * x[1] + lo \div Limb, lo % Limb)

\* ---------------------------------------------------------------- constants
\* 0.00025 = 4611686018427388 * 2^-64
COST_PER_INPUT_TOKEN == <<34359738, 49392124>>
COST_PER_OUTPUT_TOKEN == <<34359738, 49392124>>

\* ------------------------------------------------------------ session state
\* st.session_state is a mapping from keys to values; clear() empties it
EmptyState == [k \in {} |-> 0]

\* Python truthiness of a str, list, dict or None (None is the empty mapping)
Truthy(x) == DOMAIN x # {}

None == <<>>

\* init_state without its 'initialized' test
init_state_unguarded(S, uuid, t) ==
    [session_id |-> uuid, messages |-> <<>>, citations |-> <<>>,
     trace |-> EmptyState, total_cost |-> FZero, total_input_tokens |-> 0,
     total_output_tokens |-> 0, session_start_time |-> t,
     total_prompt_time |-> 0, initialized |-> TRUE]

init_state(S, uuid, t) ==
    IF "initialized" \notin DOMAIN S
    THEN [session_id |-> uuid, messages |-> <<>>, citations |-> <<>>,
          trace |-> EmptyState, total_cost |-> FZero, total_input_tokens |-> 0,
          total_output_tokens |-> 0, session_start_time |-> t,
          total_prompt_time |-> 0, initialized |-> TRUE] @@ S
    ELSE S

\* --------------------------------------------------------------- the agent
TraceTypes == <<"preProcessingTrace", "orchestrationTrace", "postProcessingTrace">>

\* bytes.decode() of the ASCII chunks the model feeds
decode(bytes) == bytes

RECURSIVE AddTraces(_, _, _)
\* the loop over the trace types, for one trace event
AddTraces(trace, ev, k) ==
    IF k > Len(TraceTypes) THEN trace
    ELSE LET ty == TraceTypes[k]
         IN  IF ty \in DOMAIN ev
             THEN AddTraces((ty :> Append(IF ty \in DOMAIN trace THEN trace[ty] ELSE <<>>,
                                          ev[ty])) @@ trace, ev, k + 1)
             ELSE AddTraces(trace, ev, k + 1)

RECURSIVE Completion(_, _, _)
\* the loop over the event stream
Completion(events, i, acc) ==
    IF i > Len(events) THEN acc
    ELSE LET event == events[i]
             a1 == IF "chunk" \in DOMAIN event
                   THEN LET chunk == event.chunk
                        IN  [acc EXCEPT
                               !.output_text = @ \o decode(chunk.bytes),
                               !.citations = IF "attribution" \in DOMAIN chunk
                                             THEN @ \o chunk.attribution.citations
                                             ELSE @]
                   ELSE acc
             a2 == IF "trace" \in DOMAIN event
                   THEN [a1 EXCEPT !.trace = AddTraces(@, event.trace.trace, 1)]
                   ELSE a1
         IN  Completion(events, i + 1, a2)

\* invoke_agent adding the elapsed time before the call can fail
invoke_agent_timed_failure(S, prompt, outcome, start_time, end_time) ==
    LET execution_time == end_time - start_time
        S1 == [S EXCEPT !.total_prompt_time = @ + execution_time]
    IN  IF outcome.error
        THEN [state |-> S1, response |-> None, st_error |-> 1]
        ELSE LET got == Completion(outcome.completion, 1,
                                   [output_text |-> <<>>, citations |-> <<>>,
                                    trace |-> EmptyState])
             IN  [state |-> S1,
                  response |-> [output_text |-> got.output_text,
                                citations |-> got.citations,
                                trace |-> got.trace,
                                execution_time |-> execution_time],
                  st_error |-> 0]

\* outcome: what the Bedrock client does, [error |-> TRUE] for a ClientError,
\* else [error |-> FALSE, completion |-> the event stream]
invoke_agent(S, prompt, outcome, start_time, end_time) ==
    IF outcome.error
    THEN [state |-> S, response |-> None, st_error |-> 1]
    ELSE LET got == Completion(outcome.completion, 1,
                               [output_text |-> <<>>, citations |-> <<>>,
                                trace |-> EmptyState])
             execution_time == end_time - start_time
         IN  [state |-> [S EXCEPT !.total_prompt_time = @ + execution_time],
              response |-> [output_text |-> got.output_text,
                            citations |-> got.citations,
                            trace |-> got.trace,
                            execution_time |-> execution_time],
              st_error |-> 0]

\* ------------------------------------------------------- the turn processor
RECURSIVE RefLines(_, _, _)
\* the inner loop over one citation's references
RefLines(idx, refs, j) ==
    IF j > Len(refs) THEN <<>>
    ELSE <<"\n">> \o FormatInt(idx) \o <<".", " ">>
         \o refs[j].location.s3Location.uri \o RefLines(idx, refs, j + 1)

RECURSIVE CitationLines_per_reference(_, _)
\* numbering every reference on its own instead of by its citation
CitationLines_per_reference(citations, idx) ==
    IF citations = <<>> THEN <<>>
    ELSE LET refs == citations[1].retrievedReferences
         IN  IF refs = <<>>
             THEN CitationLines_per_reference(Tail(citations), idx)
             ELSE RefLines(idx, <<refs[1]>>, 1)
                  \o CitationLines_per_reference(
                         <<[retrievedReferences |-> Tail(refs)]>> \o Tail(citations),
                         idx + 1)

RECURSIVE CitationLines(_, _)
\* the loop over enumerate(citations, 1)
CitationLines(citations, idx) ==
    IF idx > Len(citations) THEN <<>>
    ELSE RefLines(idx, citations[idx].retrievedReferences, 1)
         \o CitationLines(citations, idx + 1)

SourcesHeader ==
    <<"\n", "\n", "*", "*", "S", "o", "u", "r", "c", "e", "s", ":", "*", "*">>

\* store_messages appending the assistant turn first
store_messages_swapped(S, prompt, output_text, input_tokens, output_tokens, input_cost, output_cost, response, t) ==
    [S EXCEPT
       !.messages = @ \o <<
           [role |-> "assistant", content |-> output_text,
            metrics |-> [tokens |-> output_tokens, cost |-> output_cost,
                         execution_time |-> response.execution_time,
                         timestamp |-> strftime(t),
                         trace |-> response.trace]],
           [role |-> "user", content |-> prompt,
            metrics |-> [tokens |-> input_tokens, cost |-> input_cost,
                         timestamp |-> strftime(t)]] >>,
       !.citations = response.citations,
       !.trace = response.trace]

\* t: the clock at both datetime.now() reads, taken within the same second
store_messages(S, prompt, output_text, input_tokens, output_tokens, input_cost, output_cost, response, t) ==
    [S EXCEPT
       !.messages = @ \o <<
           [role |-> "user", content |-> prompt,
            metrics |-> [tokens |-> input_tokens, cost |-> input_cost,
                         timestamp |-> strftime(t)]],
           [role |-> "assistant", content |-> output_text,
            metrics |-> [tokens |-> output_tokens, cost |-> output_cost,
                         execution_time |-> response.execution_time,
                         timestamp |-> strftime(t),
                         trace |-> response.trace]] >>,
       !.citations = response.citations,
       !.trace = response.trace]

\* process_agent_response counting tokens after the Sources section is appended
process_agent_response_charging_sources(S, response, prompt, input_tokens, input_cost, t) ==
    LET shown == IF Truthy(response.citations)
                 THEN response.output_text \o SourcesHeader
                      \o CitationLines(response.citations, 1)
                 ELSE response.output_text
        output_tokens == count_tokens(shown)
        output_cost == FMul(output_tokens, COST_PER_OUTPUT_TOKEN)
        S1 == [S EXCEPT !.total_output_tokens = @ + output_tokens,
                        !.total_cost = FAdd(@, output_cost)]
    IN  store_messages(S1, prompt, shown, input_tokens, output_tokens,
                       input_cost, output_cost, response, t)

process_agent_response(S, response, prompt, input_tokens, input_cost, t) ==
    LET output_text == response.output_text
        output_tokens == count_tokens(output_text)
        output_cost == FMul(output_tokens, COST_PER_OUTPUT_TOKEN)
        S1 == [S EXCEPT !.total_output_tokens = @ + output_tokens,
                        !.total_cost = FAdd(@, output_cost)]
        shown == IF Truthy(response.citations)
                 THEN output_text \o SourcesHeader
                      \o CitationLines(response.citations, 1)
                 ELSE output_text
    IN  store_messages(S1, prompt, shown, input_tokens, output_tokens,
                       input_cost, output_cost, response, t)

process_user_input(S, prompt, outcome, start_time, end_time) ==
    LET input_tokens == count_tokens(prompt)
        input_cost == FMul(input_tokens, COST_PER_INPUT_TOKEN)
        S1 == [S EXCEPT !.total_input_tokens = @ + input_tokens,
                        !.total_cost = FAdd(@, input_cost)]
        r == invoke_agent(S1, prompt, outcome, start_time, end_time)
    IN  [state |-> IF Truthy(r.response)
                   THEN process_agent_response(r.state, r.response, prompt,
                                               input_tokens, input_cost, end_time)
                   ELSE r.state,
         invoked |-> TRUE,
         response |-> r.response,
         st_error |-> r.st_error]

\* render_chat_interface without the test of the submitted text
render_chat_interface_unguarded(S, prompt, outcome, start_time, end_time) ==
    process_user_input(S, prompt, outcome, start_time, end_time)

\* chat_input hands over the submitted text, and the walrus test drops a
\* falsy one
render_chat_interface(S, prompt, outcome, start_time, end_time) ==
    IF Truthy(prompt)
    THEN process_user_input(S, prompt, outcome, start_time, end_time)
    ELSE [state |-> S, invoked |-> FALSE, response |-> None, st_error |-> 0]

\* Reset Session without the clear()
reset_session_no_clear(S, uuid, t) == init_state(S, uuid, t)

\* the Reset Session button clicked: clear(), then init_state()
reset_session(S, uuid, t) == init_state(EmptyState, uuid, t)

\* ------------------------------------------------------------------ inputs
Uri(c) == <<"s", "3", ":", "/", "/", c>>
Ref(c) == [location |-> [s3Location |-> [uri |-> Uri(c)]]]
Citation(refs) == [retrievedReferences |-> refs]
Chunk(bytes) == [chunk |-> [bytes |-> bytes]]
ChunkAttr(bytes, cits) ==
    [chunk |-> [bytes |-> bytes, attribution |-> [citations |-> cits]]]
TraceEv(ty, payload) == [trace |-> [trace |-> (ty :> payload)]]

\* one word, no attribution, no trace
PlainStream == << Chunk(<<"o", "k">>) >>

\* "a b c" in two chunks, two citations (one and two references), traces
CitedStream ==
    << TraceEv("preProcessingTrace", "p"),
       Chunk(<<"a", " ", "b">>),
       ChunkAttr(<<" ", "c">>,
                 << Citation(<<Ref("a")>>), Citation(<<Ref("b"), Ref("c")>>) >>),
       TraceEv("orchestrationTrace", "q"),
       TraceEv("orchestrationTrace", "r") >>

\* a citation that retrieved nothing
BareStream == << ChunkAttr(<<"n", "o">>, << Citation(<<>>) >>) >>

\* no text at all
SilentStream == << TraceEv("postProcessingTrace", "s") >>

\* what the Bedrock client can do with a call, and the seconds it takes
Outcomes ==
    { [error |-> TRUE, completion |-> <<>>, seconds |-> 1],
      [error |-> FALSE, completion |-> PlainStream, seconds |-> 1],
      [error |-> FALSE, completion |-> CitedStream, seconds |-> 2],
      [error |-> FALSE, completion |-> BareStream, seconds |-> 1],
      [error |-> FALSE, completion |-> SilentStream, seconds |-> 2] }

\* what the chat box can hand over: nothing, blanks, two words, three words
Prompts == { <<>>, <<" ">>, <<"h", "i", " ", "y", "o">>,
             <<"a", " ", "b", " ", "c">> }

\* ------------------------------------------------------------ state machine
VARIABLES
    session_state,   \* st.session_state
    now,             \* the wall clock, time.time()
    next_uuid,       \* the next value uuid.uuid4() yields
    calls,           \* external agent calls made so far
    last,            \* the last script run: its event, the state before it, its call
    exchanges        \* the agent calls of the current session, in order

vars == <<session_state, now, next_uuid, calls, last, exchanges>>

Initialized == "initialized" \in DOMAIN session_state

Init ==
    /\ session_state = EmptyState
    /\ now = 0
    /\ next_uuid = 1
    /\ calls = 0
    /\ last = [op |-> "none", pre |-> EmptyState, prompt |-> <<>>,
               invoked |-> FALSE, response |-> None, st_error |-> 0]
    /\ exchanges = <<>>

\* uuid4() was consumed iff the session identifier changed
UuidAfter(S) ==
    IF "session_id" \in DOMAIN session_state
       /\ S.session_id = session_state.session_id
    THEN next_uuid ELSE next_uuid + 1

\* main() with no widget event: the first page load, or a rerun
ScriptRun ==
    /\ LET S == init_state(session_state, next_uuid, now)
       IN  /\ session_state' = S
           /\ next_uuid' = UuidAfter(S)
    /\ last' = [op |-> "run", pre |-> session_state, prompt |-> <<>>,
                invoked |-> FALSE, response |-> None, st_error |-> 0]
    /\ UNCHANGED <<now, calls, exchanges>>

\* main() with the Reset Session button clicked
ResetClick ==
    /\ Initialized
    /\ next_uuid <= MaxSessions
    /\ LET S0 == init_state(session_state, next_uuid, now)
           S == reset_session(S0, next_uuid, now)
       IN  /\ session_state' = S
           /\ next_uuid' = UuidAfter(S)
    /\ last' = [op |-> "reset", pre |-> session_state, prompt |-> <<>>,
                invoked |-> FALSE, response |-> None, st_error |-> 0]
    /\ exchanges' = <<>>
    /\ UNCHANGED <<now, calls>>

\* main() with a text submitted in the chat box
ChatSubmit ==
    /\ Initialized
    /\ calls < MaxCalls
    /\ \E prompt \in Prompts, outcome \in Outcomes :
         LET S0 == init_state(session_state, next_uuid, now)
             r == render_chat_interface(S0, prompt, outcome, now,
                                        now + outcome.seconds)
         IN  /\ session_state' = r.state
             /\ next_uuid' = UuidAfter(r.state)
             /\ calls' = IF r.invoked THEN calls + 1 ELSE calls
             /\ now' = IF r.invoked THEN now + outcome.seconds ELSE now
             /\ last' = [op |-> "chat", pre |-> session_state, prompt |-> prompt,
                         invoked |-> r.invoked, response |-> r.response,
                         st_error |-> r.st_error]
             /\ exchanges' = IF r.invoked
                             THEN Append(exchanges, [prompt |-> prompt,
                                                     response |-> r.response])
                             ELSE exchanges

Next == ScriptRun \/ ResetClick \/ ChatSubmit

Spec == Init /\ [][Next]_vars

\* ------------------------------------------------------------------ claims
messages == session_state.messages

LastTurn == messages[Len(messages)]

\* the last script run was a chat submission whose agent call failed
LastFailed == last.op = "chat" /\ last.invoked /\ ~Truthy(last.response)

\* the last script run was a chat submission whose agent call answered
LastAnswered == last.op = "chat" /\ last.invoked /\ Truthy(last.response)

RECURSIVE SumTokens(_, _)
\* the sum of metrics.tokens over the turns of one role
SumTokens(msgs, role) ==
    IF msgs = <<>> THEN 0
    ELSE (IF msgs[1].role = role THEN msgs[1].metrics.tokens ELSE 0)
         + SumTokens(Tail(msgs), role)

RECURSIVE SumCostFrom(_, _)
\* the float sum of metrics.cost over the turns, in transcript order
SumCostFrom(msgs, acc) ==
    IF msgs = <<>> THEN acc
    ELSE SumCostFrom(Tail(msgs), FAdd(acc, msgs[1].metrics.cost))

RECURSIVE SumExec(_)
\* the sum of metrics.execution_time over the assistant turns
SumExec(msgs) ==
    IF msgs = <<>> THEN 0
    ELSE (IF msgs[1].role = "assistant" THEN msgs[1].metrics.execution_time ELSE 0)
         + SumExec(Tail(msgs))

\* C1: a failed external call leaves the whole session as it was before the
\* submission: the transcript and every cumulative counter.
C1_FailedCallChangesNothing ==
    LastFailed =>
        /\ session_state.messages = last.pre.messages
        /\ session_state.total_input_tokens = last.pre.total_input_tokens
        /\ session_state.total_output_tokens = last.pre.total_output_tokens
        /\ session_state.total_cost = last.pre.total_cost
        /\ session_state.total_prompt_time = last.pre.total_prompt_time

\* C2: in every reachable state the cumulative counters equal the sums of the
\* per-turn values of the transcript.
C2_CountersEqualTranscriptSums ==
    Initialized =>
        /\ session_state.total_input_tokens = SumTokens(messages, "user")
        /\ session_state.total_output_tokens = SumTokens(messages, "assistant")
        /\ session_state.total_cost = SumCostFrom(messages, FZero)

\* every agent call of the current session answered
AllAnswered == \A i \in 1..Len(exchanges) : Truthy(exchanges[i].response)

RECURSIVE PromptWords(_)
PromptWords(xs) ==
    IF xs = <<>> THEN 0
    ELSE Len(split(xs[1].prompt)) + PromptWords(Tail(xs))

RECURSIVE ResponseWords(_)
ResponseWords(xs) ==
    IF xs = <<>> THEN 0
    ELSE Len(split(xs[1].response.output_text)) + ResponseWords(Tail(xs))

RECURSIVE RunningCost(_, _)
\* the float sum, in turn order, of each utterance's and each response's
\* word count times the rate
RunningCost(xs, acc) ==
    IF xs = <<>> THEN acc
    ELSE RunningCost(Tail(xs),
             FAdd(FAdd(acc, FMul(Len(split(xs[1].prompt)), COST_PER_INPUT_TOKEN)),
                  FMul(Len(split(xs[1].response.output_text)), COST_PER_OUTPUT_TOKEN)))

\* n * 0.00025 exactly, unrounded, in units of 2^-64
ExactCost(n) ==
    LET lo == n * COST_PER_INPUT_TOKEN[2]
    IN  <<n * COST_PER_INPUT_TOKEN[1] + lo \div Limb, lo % Limb>>

\* a - b in units of 2^-64, for values a few units apart
UnitsApart(a, b) ==
    LET d == (a[1] - b[1]) * Limb + (a[2] - b[2])
    IN  IF d < 0 THEN -d ELSE d

\* C3 as stated: after successful turns only, the token counters are the sums
\* of the word counts and total_cost is exactly (input + output) * 0.00025.
C3_CostIsTokensTimesRate ==
    (Initialized /\ AllAnswered) =>
        /\ session_state.total_input_tokens = PromptWords(exchanges)
        /\ session_state.total_output_tokens = ResponseWords(exchanges)
        /\ session_state.total_cost =
               FMul(session_state.total_input_tokens
                    + session_state.total_output_tokens, COST_PER_INPUT_TOKEN)

\* C3 amended: after successful turns only, the token counters are the sums of
\* the word counts, and total_cost is the double-precision running sum of the
\* per-turn costs, which is (input + output) * 0.00025 up to rounding: four
\* roundings a turn, each at most half a unit in the last place (16 * 2^-64
\* for the totals below 2^-6 that the model reaches).
C3_CostIsRunningFloatSum ==
    (Initialized /\ AllAnswered) =>
        /\ session_state.total_input_tokens = PromptWords(exchanges)
        /\ session_state.total_output_tokens = ResponseWords(exchanges)
        /\ session_state.total_cost = RunningCost(exchanges, FZero)
        /\ UnitsApart(session_state.total_cost,
                      ExactCost(session_state.total_input_tokens
                                + session_state.total_output_tokens))
               <= 64 * Len(exchanges)

\* two successful turns, five and four words, as in "hello world" answered,
\* then a second exchange
C3_Witness ==
    /\ Initialized /\ AllAnswered /\ Len(exchanges) = 2
    /\ session_state.total_input_tokens = 5
    /\ session_state.total_output_tokens = 4

\* C4: Reset Session leaves an empty transcript, zero counters and no stored
\* citations or trace, whatever the session held.
C4_ResetZeroesSession ==
    last.op = "reset" =>
        /\ session_state.messages = <<>>
        /\ session_state.total_input_tokens = 0
        /\ session_state.total_output_tokens = 0
        /\ session_state.total_cost = FZero
        /\ session_state.total_prompt_time = 0
        /\ session_state.citations = <<>>
        /\ session_state.trace = EmptyState

\* a reset of a session that held turns, citations and a failed call's charge
C4_Witness ==
    /\ last.op = "reset"
    /\ Len(last.pre.messages) > 0
    /\ last.pre.citations # <<>>
    /\ last.pre.total_prompt_time > 0
    /\ last.pre.total_input_tokens > SumTokens(last.pre.messages, "user")

HasResponse(x) == Truthy(x.response)

\* the answered agent calls of the current session, in order
Answered == SelectSeq(exchanges, HasResponse)

\* C5: the transcript alternates user, assistant, so its length is even, and
\* the k-th pair is the utterance and the answer of the k-th answered call.
C5_TranscriptAlternates ==
    Initialized =>
        /\ Len(messages) % 2 = 0
        /\ \A i \in 1..Len(messages) :
             messages[i].role = IF i % 2 = 1 THEN "user" ELSE "assistant"
        /\ Len(messages) = 2 * Len(Answered)
        /\ \A k \in 1..Len(Answered) :
             /\ messages[2 * k - 1].content = Answered[k].prompt
             /\ messages[2 * k].metrics.execution_time
                    = Answered[k].response.execution_time
             /\ messages[2 * k].metrics.trace = Answered[k].response.trace

\* a turn pair stored after a failed call in the same session
C5_Witness ==
    /\ Initialized
    /\ Len(messages) = 2
    /\ Len(exchanges) = 2
    /\ ~Truthy(exchanges[1].response)

\* C6: init_state on an initialized session changes nothing; on an
\* uninitialized one it sets the identifier, the empty transcript, the zeroed
\* counters and the start time.
C6_InitStateIdempotent ==
    last.op = "run" =>
        IF "initialized" \in DOMAIN last.pre
        THEN session_state = last.pre
        ELSE /\ session_state.session_id = next_uuid - 1
             /\ session_state.messages = <<>>
             /\ session_state.citations = <<>>
             /\ session_state.trace = EmptyState
             /\ session_state.total_cost = FZero
             /\ session_state.total_input_tokens = 0
             /\ session_state.total_output_tokens = 0
             /\ session_state.total_prompt_time = 0
             /\ session_state.session_start_time = now
             /\ session_state.initialized

\* a rerun of the script on a session that holds turns, later than its start
C6_Witness ==
    /\ last.op = "run"
    /\ "initialized" \in DOMAIN last.pre
    /\ Len(messages) > 0
    /\ now > session_state.session_start_time

RECURSIVE RefsBefore(_, _)
\* the number of references owned by the citations before the i-th
RefsBefore(cits, i) ==
    IF i <= 1 THEN 0
    ELSE RefsBefore(cits, i - 1) + Len(cits[i - 1].retrievedReferences)

RefCount(cits) == RefsBefore(cits, Len(cits) + 1)

\* the 1-based index of the citation that owns the k-th reference overall
Owner(cits, k) ==
    CHOOSE i \in 1..Len(cits) :
        RefsBefore(cits, i) < k /\ k <= RefsBefore(cits, i + 1)

\* the line "<i>. <uri>" of the k-th reference overall
SourceLine(cits, k) ==
    LET i == Owner(cits, k)
    IN  FormatInt(i) \o <<".", " ">>
        \o cits[i].retrievedReferences[k - RefsBefore(cits, i)].location.s3Location.uri

RECURSIVE SourceLines(_, _)
\* lines k, k+1, ... each on a line of its own
SourceLines(cits, k) ==
    IF k > RefCount(cits) THEN <<>>
    ELSE <<"\n">> \o SourceLine(cits, k) \o SourceLines(cits, k + 1)

\* citations [[s3://a], [s3://b, s3://c]]
ExampleCitations ==
    << [retrievedReferences |-> <<Ref("a")>>],
       [retrievedReferences |-> <<Ref("b"), Ref("c")>>] >>

ExampleSources ==
    <<"\n", "\n", "*", "*", "S", "o", "u", "r", "c", "e", "s", ":", "*", "*",
      "\n", "1", ".", " ", "s", "3", ":", "/", "/", "a",
      "\n", "2", ".", " ", "s", "3", ":", "/", "/", "b",
      "\n", "2", ".", " ", "s", "3", ":", "/", "/", "c">>

\* C7: with citations, the stored assistant content is the response text, the
\* Sources header, then one line "<i>. <uri>" per reference in collaborator
\* order, i the 1-based index of the owning citation; with none, the response
\* text alone.  [[s3://a],[s3://b,s3://c]] gives 1. s3://a, 2. s3://b, 2. s3://c.
C7_SourcesSection ==
    LastAnswered =>
        LET cits == last.response.citations
            text == last.response.output_text
        IN  /\ LastTurn.role = "assistant"
            /\ cits = <<>> => LastTurn.content = text
            /\ cits # <<>> =>
                   LastTurn.content = text \o SourcesHeader \o SourceLines(cits, 1)
            /\ cits = ExampleCitations =>
                   LastTurn.content = text \o ExampleSources

\* the answer with citations [[s3://a], [s3://b, s3://c]] was stored
C7_Witness ==
    /\ LastAnswered
    /\ last.response.citations = ExampleCitations
    /\ Len(LastTurn.content) = Len(last.response.output_text) + Len(ExampleSources)

\* C8: the assistant turn's tokens and cost, and the increments of
\* total_output_tokens and total_cost, come from the response text alone,
\* whatever citations the response carries.
C8_SourcesNotCharged ==
    LastAnswered =>
        LET words == Len(split(last.response.output_text))
            input_cost == FMul(Len(split(last.prompt)), COST_PER_INPUT_TOKEN)
            output_cost == FMul(words, COST_PER_OUTPUT_TOKEN)
        IN  /\ LastTurn.metrics.tokens = words
            /\ LastTurn.metrics.cost = output_cost
            /\ session_state.total_output_tokens
                   = last.pre.total_output_tokens + words
            /\ session_state.total_cost
                   = FAdd(FAdd(last.pre.total_cost, input_cost), output_cost)

\* an answer whose stored content carries a Sources section with words in it
C8_Witness ==
    /\ LastAnswered
    /\ last.response.citations # <<>>
    /\ Len(split(LastTurn.content)) > Len(split(last.response.output_text))

\* C9 as stated: an utterance with no whitespace-delimited token (empty, or
\* blanks only) causes no agent call and changes nothing in the session.
C9_NoTokenInputIsNoOp ==
    (last.op = "chat" /\ Len(split(last.prompt)) = 0) =>
        /\ ~last.invoked
        /\ session_state = last.pre

\* C9 amended: the empty string causes no agent call and changes nothing in
\* the session.
C9_EmptyInputIsNoOp ==
    (last.op = "chat" /\ last.prompt = <<>>) =>
        /\ ~last.invoked
        /\ last.st_error = 0
        /\ session_state = last.pre

\* the empty string submitted to a session that holds turns
C9_Witness ==
    /\ last.op = "chat"
    /\ last.prompt = <<>>
    /\ Len(messages) > 0

\* C10: between interactions total_prompt_time is the sum of the assistant
\* turns' execution times, and the stored citations and trace are those of the
\* last answer in the transcript (empty with an empty transcript); a failed
\* call changes none of the three.
C10_TimeCitationsTrace ==
    Initialized =>
        /\ session_state.total_prompt_time = SumExec(messages)
        /\ messages = <<>> =>
               session_state.citations = <<>> /\ session_state.trace = EmptyState
        /\ messages # <<>> =>
               /\ session_state.citations
                      = Answered[Len(Answered)].response.citations
               /\ session_state.trace = Answered[Len(Answered)].response.trace
               /\ session_state.trace = LastTurn.metrics.trace
        /\ LastFailed =>
               /\ session_state.total_prompt_time = last.pre.total_prompt_time
               /\ session_state.citations = last.pre.citations
               /\ session_state.trace = last.pre.trace

\* a failed call after an answer that carried citations and a trace
C10_Witness ==
    /\ LastFailed
    /\ Len(messages) > 0
    /\ session_state.citations # <<>>
    /\ session_state.trace # EmptyState
    /\ session_state.total_prompt_time > 0

====
